---------------------------- MODULE Spec2Model ----------------------------
(***************************************************************************)
(* A model of YoloPageConverter (src/converter.py): convert_page, which    *)
(* turns a YOLO segmentation label file into a PAGE-XML tree of regions    *)
(* and text lines, and convert_folder, which runs it over a directory.     *)
(*                                                                         *)
(* A label line is the sequence of its whitespace-separated tokens: the    *)
(* class id, then the normalized coordinates, each written as its          *)
(* numerator k of k/Den.  Areas are kept doubled (the shoelace sum         *)
(* without its division by two), so every comparison of the code between   *)
(* floats becomes a comparison between integers.                           *)
(***************************************************************************)
EXTENDS Integers, Sequences, FiniteSets, TLC

VARIABLES
    lines,                  \* f.readlines(): the label file
    img,                    \* <<img_width, img_height>>
    pc,                     \* position inside convert_page
    run,                    \* 1 for the first call of convert_page, 2 for the second
    parent_text_regions,    \* converter.py:356
    child_text_regions,     \* converter.py:357
    text_lines,             \* converter.py:358
    all_text_regions,       \* converter.py:360
    nodes,                  \* the elements created under Page, in creation order
    orphan_child_regions,   \* converter.py:429
    orphan_line_counter,    \* converter.py:466
    first_nodes,            \* the tree the first call returned
    txt_files,              \* convert_folder: the label files globbed
    fpc,                    \* position inside convert_folder
    fidx,                   \* convert_folder: index of the file being processed
    converted,              \* converter.py:577
    failed,                 \* converter.py:578
    calls                   \* per label file, how often convert_page was called on it

pagevars == <<lines, img, pc, run, parent_text_regions, child_text_regions,
              text_lines, all_text_regions, nodes, orphan_child_regions,
              orphan_line_counter, first_nodes>>
foldervars == <<txt_files, fpc, fidx, converted, failed, calls>>
vars == <<pagevars, foldervars>>

-----------------------------------------------------------------------------
(* Bounds of the model *)

\* longest label file
MaxLines == 3
\* most label files in a folder
MaxFiles == 3

\* Normalized coordinates are k/Den; a power of two, so that k/Den and its
\* product with an image size are exact in binary floating point.
Den == 2 * 2 * 2 * 2

Missing == "<missing>"
NoElement == 0

-----------------------------------------------------------------------------
(* Geometry kernel *)

Min(a, b) == IF a < b THEN a ELSE b
Max(a, b) == IF a > b THEN a ELSE b
Abs(a) == IF a < 0 THEN -a ELSE a

RECURSIVE PairsFrom(_, _)
\* the (x, y) pairs read from parts[i], parts[i+1], parts[i+2], ...
PairsFrom(parts, i) ==
    IF i + 1 <= Len(parts)
    THEN <<<<parts[i], parts[i + 1]>>>> \o PairsFrom(parts, i + 2)
    ELSE <<>>

\* _parse_yolo_label with len(parts) < 5: a line of two points is let through
ParseYoloLabelLenient(parts) ==
    IF Len(parts) < 5
    THEN <<Missing, <<>>>>
    ELSE <<parts[1], PairsFrom(parts, 2)>>

\* _parse_yolo_label: <<class_id, points>>; fewer than 7 tokens give no points
\* (a trailing unpaired token is dropped)
ParseYoloLabel(parts) ==
    IF Len(parts) < 7
    THEN <<Missing, <<>>>>
    ELSE <<parts[1], PairsFrom(parts, 2)>>

\* _denormalize_points: int(x * img_width), int(y * img_height) with x = k/Den
DenormalizePoints(points, w, h) ==
    [i \in 1..Len(points) |->
        <<(points[i][1] * w) \div Den, (points[i][2] * h) \div Den>>]

Nxt(pts, i) == pts[(i % Len(pts)) + 1]

RECURSIVE ShoelaceFrom(_, _)
ShoelaceFrom(pts, i) ==
    IF i > Len(pts) THEN 0
    ELSE pts[i][1] * Nxt(pts, i)[2] - Nxt(pts, i)[1] * pts[i][2]
         + ShoelaceFrom(pts, i + 1)

\* twice Polygon(pts).area
Area2(pts) == Abs(ShoelaceFrom(pts, 1))

Orient(p, q, r) == (q[1] - p[1]) * (r[2] - p[2]) - (q[2] - p[2]) * (r[1] - p[1])
Sign(v) == IF v > 0 THEN 1 ELSE IF v < 0 THEN -1 ELSE 0

OnSegment(p, q, r) ==
    /\ Orient(p, q, r) = 0
    /\ Min(p[1], q[1]) <= r[1] /\ r[1] <= Max(p[1], q[1])
    /\ Min(p[2], q[2]) <= r[2] /\ r[2] <= Max(p[2], q[2])

\* the closed segments ab and cd share a point
SegmentsMeet(a, b, c, d) ==
    \/ /\ Sign(Orient(a, b, c)) # Sign(Orient(a, b, d))
       /\ Sign(Orient(c, d, a)) # Sign(Orient(c, d, b))
    \/ OnSegment(a, b, c) \/ OnSegment(a, b, d)
    \/ OnSegment(c, d, a) \/ OnSegment(c, d, b)

\* Polygon(pts).is_valid: a ring of positive area none of whose non-adjacent
\* edges meet
IsValid(pts) ==
    /\ Len(pts) >= 3
    /\ Area2(pts) > 0
    /\ \A i \in 1..(Len(pts) - 2) :
          \A j \in (i + 2)..Len(pts) :
              ~(i = 1 /\ j = Len(pts))
                  => ~SegmentsMeet(pts[i], Nxt(pts, i), pts[j], Nxt(pts, j))

Xs(pts) == {pts[i][1] : i \in 1..Len(pts)}
Ys(pts) == {pts[i][2] : i \in 1..Len(pts)}
Lo(S) == CHOOSE v \in S : \A u \in S : v <= u
Hi(S) == CHOOSE v \in S : \A u \in S : v >= u

\* twice poly1.intersection(poly2).area.  The valid polygons of the model are
\* axis-aligned rectangles, whose intersection is the intersection of their
\* extents.
IntersectionArea2(p, q) ==
    LET w == Min(Hi(Xs(p)), Hi(Xs(q))) - Max(Lo(Xs(p)), Lo(Xs(q)))
        h == Min(Hi(Ys(p)), Hi(Ys(q))) - Max(Lo(Ys(p)), Lo(Ys(q)))
    IN  IF w > 0 /\ h > 0 THEN 2 * w * h ELSE 0

\* _calculate_polygon_overlap (doubled): 0 when either polygon is invalid
CalculatePolygonOverlap2(poly1, poly2) ==
    IF ~IsValid(poly1) \/ ~IsValid(poly2)
    THEN 0
    ELSE IntersectionArea2(poly1, poly2)

\* _calculate_containment_score as the fraction <<numerator, denominator>>
CalculateContainmentScore(child, parent) ==
    IF ~IsValid(child) \/ ~IsValid(parent)
    THEN <<0, 1>>
    ELSE IF Area2(child) > 0
         THEN <<IntersectionArea2(child, parent), Area2(child)>>
         ELSE <<0, 1>>

\* a > b for fractions with positive denominators
FracGT(a, b) == a[1] * b[2] > b[1] * a[2]

-----------------------------------------------------------------------------
(* The mapping table and the XML tree *)

Config(element, parent, type, parent_type) ==
    [element |-> element, parent |-> parent, type |-> type,
     parent_type |-> parent_type]

\* an empty dict: what self.mapping.get(class_id_str, {}) gives an absent key
EmptyConfig == Config(Missing, Missing, Missing, Missing)

\* self.mapping, keyed by class id: two kinds of line, a top-level and a
\* nestable text region, a table, an element convert_page does not know, and
\* a key whose configuration is empty.  Class 7 has no key.
Mapping ==
    [c \in 0..6 |->
        CASE c = 0 -> Config("TextLine", "TextRegion", Missing, Missing)
          [] c = 1 -> Config("TextRegion", Missing, "heading", Missing)
          [] c = 2 -> Config("TextRegion", "TextRegion", "paragraph", Missing)
          [] c = 3 -> Config("TableRegion", Missing, Missing, Missing)
          [] c = 4 -> Config("MathsRegion", Missing, Missing, Missing)
          [] c = 5 -> Config("TextLine", Missing, Missing, "caption")
          [] c = 6 -> EmptyConfig]

\* dict.get(key, default)
Get(config, key, default) ==
    IF config[key] = Missing THEN default ELSE config[key]

\* self.mapping.get(str(class_id), {})
MappingGet(class_id) ==
    IF class_id \in DOMAIN Mapping THEN Mapping[class_id] ELSE EmptyConfig

OtherRegions ==
    {"TableRegion", "ImageRegion", "GraphicRegion", "SeparatorRegion",
     "NoiseRegion"}

DigitChar == <<"0", "1", "2", "3", "4", "5", "6", "7", "8", "9">>

RECURSIVE Digits(_)
\* str(n) as its characters
Digits(n) ==
    IF n < 10 THEN <<DigitChar[n + 1]>>
    ELSE Digits(n \div 10) \o <<DigitChar[(n % 10) + 1]>>

RECURSIVE PadZero(_, _)
PadZero(s, width) == IF Len(s) >= width THEN s ELSE PadZero(<<"0">> \o s, width)

\* f"{n:04d}"
Format04d(n) == PadZero(Digits(n), 4)

\* f"r{idx:04d}"
RegionId(idx) == <<"r">> \o Format04d(idx)
\* f"l{idx:04d}"
LineId(idx) == <<"l">> \o Format04d(idx)
\* the orphan id without its own prefix: f"r{orphan_line_counter:04d}"
OrphanRegionIdPlain(counter) == RegionId(counter)

\* f"r_orphan{orphan_line_counter:04d}"
OrphanRegionId(counter) ==
    <<"r", "_", "o", "r", "p", "h", "a", "n">> \o Format04d(counter)

\* the Page element, as the parent of a node
Page == 0

\* _add_region: ET.SubElement(parent, element_type) with its id, its type (set
\* only on a TextRegion with a region_type) and its Coords.  convert_page
\* always passes region_id.  The new element is the index of the new node.
AddRegion(tree, parent, element_type, points, region_id, region_type) ==
    Append(tree,
        [tag |-> element_type, id |-> region_id,
         type |-> IF region_type # Missing /\ element_type = "TextRegion"
                  THEN region_type ELSE Missing,
         points |-> points, parent |-> parent])

\* _add_text_line: ET.SubElement(parent, 'TextLine')
AddTextLine(tree, parent, points, line_id) ==
    Append(tree,
        [tag |-> "TextLine", id |-> line_id, type |-> Missing,
         points |-> points, parent |-> parent])

-----------------------------------------------------------------------------
(* convert_page, first pass: parse and categorize *)

RegionInfo(points, idx, config) ==
    [points |-> points, id |-> RegionId(idx),
     type |-> Get(config, "type", Missing), config |-> config,
     element |-> NoElement]

LineInfo(points, idx, config) ==
    [points |-> points, id |-> LineId(idx), config |-> config]

\* the body of the loop of converter.py:363 for lines[i] (idx = i - 1), on
\* acc = [parents, children, tlines, tree]
CategorizeLine(ls, im, i, acc) ==
    LET line == ls[i]
        parsed == ParseYoloLabel(line)
        abs_points == DenormalizePoints(parsed[2], im[1], im[2])
        element_config == MappingGet(parsed[1])
        element_type == Get(element_config, "element", "TextLine")
    IN  IF Len(line) = 0 THEN acc
        ELSE IF Len(parsed[2]) = 0 THEN acc
        ELSE IF element_config = EmptyConfig THEN acc
        ELSE IF element_type = "TextLine"
             THEN [acc EXCEPT !.tlines =
                       Append(@, LineInfo(abs_points, i - 1, element_config))]
        ELSE IF element_type = "TextRegion"
             THEN IF Get(element_config, "parent", "") = "TextRegion"
                  THEN [acc EXCEPT !.children =
                       Append(@, RegionInfo(abs_points, i - 1, element_config))]
                  ELSE [acc EXCEPT !.parents =
                       Append(@, RegionInfo(abs_points, i - 1, element_config))]
        ELSE IF element_type \in OtherRegions
             THEN [acc EXCEPT !.tree =
                       AddRegion(@, Page, element_type, abs_points,
                                 RegionId(i - 1), Missing)]
        ELSE acc

RECURSIVE CategorizeFrom(_, _, _, _)
CategorizeFrom(ls, im, i, acc) ==
    IF i > Len(ls) THEN acc
    ELSE CategorizeFrom(ls, im, i + 1, CategorizeLine(ls, im, i, acc))

-----------------------------------------------------------------------------
(* second pass: create the top-level TextRegions *)

RECURSIVE CreateParentsFromBackwards(_, _)
\* the loop over reversed(parent_text_regions)
CreateParentsFromBackwards(i, acc) ==
    IF i > Len(acc.parents) THEN acc
    ELSE LET j == Len(acc.parents) - i + 1
             info == acc.parents[j]
             tree == AddRegion(acc.tree, Page, "TextRegion", info.points,
                               info.id, info.type)
             made == [info EXCEPT !.element = Len(tree)]
         IN  CreateParentsFromBackwards(i + 1,
                 [parents |-> [acc.parents EXCEPT ![j] = made],
                  all |-> Append(acc.all, made),
                  tree |-> tree])

RECURSIVE CreateParentsFrom(_, _)
\* the loop of converter.py:417 from parents[i] on, on acc = [parents, all, tree]
CreateParentsFrom(i, acc) ==
    IF i > Len(acc.parents) THEN acc
    ELSE LET info == acc.parents[i]
             tree == AddRegion(acc.tree, Page, "TextRegion", info.points,
                               info.id, info.type)
             made == [info EXCEPT !.element = Len(tree)]
         IN  CreateParentsFrom(i + 1,
                 [parents |-> [acc.parents EXCEPT ![i] = made],
                  all |-> Append(acc.all, made),
                  tree |-> tree])

-----------------------------------------------------------------------------
(* third pass: nest the child TextRegions *)

\* threshold: float = 0.5
Threshold == <<1, 2>>

\* a >= b for fractions with positive denominators
FracGE(a, b) == a[1] * b[2] >= b[1] * a[2]

RECURSIVE BestParentFromInclusive(_, _, _, _, _)
\* the loop of _find_best_parent with score >= best_score
BestParentFromInclusive(child_points, potential_parents, i, best_parent, best_score) ==
    IF i > Len(potential_parents) THEN <<best_parent, best_score>>
    ELSE LET score == CalculateContainmentScore(child_points,
                                                potential_parents[i].points)
         IN  IF FracGE(score, best_score)
             THEN BestParentFromInclusive(child_points, potential_parents,
                      i + 1, potential_parents[i].element, score)
             ELSE BestParentFromInclusive(child_points, potential_parents,
                      i + 1, best_parent, best_score)

RECURSIVE BestParentFrom(_, _, _, _, _)
\* the loop of _find_best_parent from potential_parents[i] on
BestParentFrom(child_points, potential_parents, i, best_parent, best_score) ==
    IF i > Len(potential_parents) THEN <<best_parent, best_score>>
    ELSE LET score == CalculateContainmentScore(child_points,
                                                potential_parents[i].points)
         IN  IF FracGT(score, best_score)
             THEN BestParentFrom(child_points, potential_parents, i + 1,
                                 potential_parents[i].element, score)
             ELSE BestParentFrom(child_points, potential_parents, i + 1,
                                 best_parent, best_score)

\* _find_best_parent with >= threshold in place of > threshold
FindBestParentInclusive(child_points, potential_parents, threshold) ==
    LET r == BestParentFromInclusive(child_points, potential_parents, 1,
                                     NoElement, threshold)
    IN  IF r[1] # NoElement /\ FracGE(r[2], threshold) THEN r[1] ELSE NoElement

\* _find_best_parent.  An element made by _add_region has a Coords child, so
\* `if best_parent` is true of every element.
FindBestParent(child_points, potential_parents, threshold) ==
    LET r == BestParentFrom(child_points, potential_parents, 1, NoElement,
                            threshold)
    IN  IF r[1] # NoElement /\ FracGT(r[2], threshold) THEN r[1] ELSE NoElement

RECURSIVE AssignChildrenFrom(_, _, _)
\* the loop of converter.py:432 from children[i] on, on
\* acc = [children, all, tree, orphans]
AssignChildrenFrom(parents, i, acc) ==
    IF i > Len(acc.children) THEN acc
    ELSE LET info == acc.children[i]
             best_parent == FindBestParent(info.points, parents, Threshold)
             tree == AddRegion(acc.tree,
                               IF best_parent # NoElement THEN best_parent
                               ELSE Page,
                               "TextRegion", info.points, info.id, info.type)
             made == [info EXCEPT !.element = Len(tree)]
         IN  AssignChildrenFrom(parents, i + 1,
                 [children |-> [acc.children EXCEPT ![i] = made],
                  all |-> Append(acc.all, made),
                  tree |-> tree,
                  orphans |-> IF best_parent # NoElement THEN acc.orphans
                              ELSE Append(acc.orphans, info.id)])

-----------------------------------------------------------------------------
(* fourth pass: assign the TextLines *)

\* float('inf'), as a doubled area
Inf == -1

\* AreaLT with the comparison turned round: the largest region wins
AreaLTLargest(a, b) == b = Inf \/ (a # Inf /\ a > b)

\* a < b between doubled areas, either of which may be Inf
AreaLT(a, b) == a # Inf /\ (b = Inf \/ a < b)

\* min_overlap_threshold = 0.1
MinOverlapThreshold == <<1, 10>>

\* line_poly.area if line_poly.is_valid else 0 (doubled)
LineArea2(line_points) == IF IsValid(line_points) THEN Area2(line_points) ELSE 0

\* SignificantOverlap with >= in place of >
SignificantOverlapInclusive(overlap2, line_area2) ==
    /\ line_area2 > 0
    /\ overlap2 * MinOverlapThreshold[2] >= line_area2 * MinOverlapThreshold[1]

\* overlap > line_area * min_overlap_threshold, guarded by line_area > 0
SignificantOverlap(overlap2, line_area2) ==
    /\ line_area2 > 0
    /\ overlap2 * MinOverlapThreshold[2] > line_area2 * MinOverlapThreshold[1]

\* region_poly.area if region_poly.is_valid else float('inf') (doubled)
RegionArea2(region_points) ==
    IF IsValid(region_points) THEN Area2(region_points) ELSE Inf

RECURSIVE BestRegionFromLast(_, _, _, _, _, _)
\* the loop over the regions with region_area <= best_region_area: of the
\* regions of the same, smallest area the last one is kept
BestRegionFromLast(line_points, line_area2, regions, i, best_region, best_area) ==
    IF i > Len(regions) THEN best_region
    ELSE LET info == regions[i]
             overlap2 == CalculatePolygonOverlap2(line_points, info.points)
             region_area == RegionArea2(info.points)
         IN  IF /\ info.element # NoElement
                /\ SignificantOverlap(overlap2, line_area2)
                /\ ~AreaLT(best_area, region_area)
             THEN BestRegionFromLast(line_points, line_area2, regions, i + 1,
                                     info.element, region_area)
             ELSE BestRegionFromLast(line_points, line_area2, regions, i + 1,
                                     best_region, best_area)

RECURSIVE BestRegionFrom(_, _, _, _, _, _)
\* the loop of converter.py:485 from regions[i] on
BestRegionFrom(line_points, line_area2, regions, i, best_region, best_area) ==
    IF i > Len(regions) THEN best_region
    ELSE LET info == regions[i]
             overlap2 == CalculatePolygonOverlap2(line_points, info.points)
             region_area == RegionArea2(info.points)
         IN  IF /\ info.element # NoElement
                /\ SignificantOverlap(overlap2, line_area2)
                /\ AreaLT(region_area, best_area)
             THEN BestRegionFrom(line_points, line_area2, regions, i + 1,
                                 info.element, region_area)
             ELSE BestRegionFrom(line_points, line_area2, regions, i + 1,
                                 best_region, best_area)

\* converter.py:474-505: the smallest text region the line overlaps enough
BestRegion(line_points, regions) ==
    BestRegionFrom(line_points, LineArea2(line_points), regions, 1,
                   NoElement, Inf)

\* PlaceLine without the _add_text_line of the orphan branch
PlaceLineNoOrphanLine(line_info, regions, acc) ==
    LET best_region == BestRegion(line_info.points, regions)
    IN  IF best_region # NoElement
        THEN [acc EXCEPT !.tree =
                 AddTextLine(@, best_region, line_info.points, line_info.id)]
        ELSE [tree |-> AddRegion(acc.tree, Page, "TextRegion",
                                 line_info.points, OrphanRegionId(acc.counter),
                                 Get(line_info.config, "parent_type",
                                     "paragraph")),
              counter |-> acc.counter + 1]

\* converter.py:507-521 for one line, on acc = [tree, counter]
PlaceLine(line_info, regions, acc) ==
    LET best_region == BestRegion(line_info.points, regions)
    IN  IF best_region # NoElement
        THEN [acc EXCEPT !.tree =
                 AddTextLine(@, best_region, line_info.points, line_info.id)]
        ELSE LET parent_type == Get(line_info.config, "parent_type", "paragraph")
                 withRegion == AddRegion(acc.tree, Page, "TextRegion",
                                         line_info.points,
                                         OrphanRegionId(acc.counter),
                                         parent_type)
             IN  [tree |-> AddTextLine(withRegion, Len(withRegion),
                                       line_info.points, line_info.id),
                  counter |-> acc.counter + 1]

RECURSIVE AssignLinesFromMerging(_, _, _, _)
\* the loop over the lines with every manufactured container appended to
\* the candidate regions
AssignLinesFromMerging(tlines, regions, i, acc) ==
    IF i > Len(tlines) THEN acc
    ELSE LET placed == PlaceLine(tlines[i], regions, acc)
         IN  AssignLinesFromMerging(tlines,
                 IF placed.counter > acc.counter
                 THEN Append(regions,
                          [points |-> tlines[i].points,
                           element |-> Len(placed.tree) - 1])
                 ELSE regions,
                 i + 1, placed)

RECURSIVE AssignLinesFrom(_, _, _, _)
\* the loop of converter.py:469 from tlines[i] on
AssignLinesFrom(tlines, regions, i, acc) ==
    IF i > Len(tlines) THEN acc
    ELSE AssignLinesFrom(tlines, regions, i + 1,
                         PlaceLine(tlines[i], regions, acc))

-----------------------------------------------------------------------------
(* The inputs of the model *)

\* the four corners of an axis-aligned rectangle, in ring order, in 1/Den
Rect(x1, y1, x2, y2) == <<x1, y1, x2, y1, x2, y2, x1, y2>>

PolyA == Rect(0, 0, 12, 4)
PolyB == Rect(0, 0, 6, 2)
PolyC == Rect(5, 0, 16, 4)
PolyHalf == Rect(3, 0, 9, 2)
PolyLineIn == Rect(2, 0, 4, 1)
PolyLineTenth == Rect(5, 0, 15, 1)
\* overlaps PolyC alone
PolyFar == Rect(13, 2, 16, 5)
\* a self-intersecting ring of non-zero shoelace sum
PolyBow == <<0, 0, 4, 2, 4, 0, 0, 4>>
\* three corners
PolyTri == <<13, 5, 16, 5, 16, 8>>

\* the label lines a file is made of
LabelLines ==
    { <<1>> \o PolyA, <<1>> \o PolyB, <<1>> \o PolyC,
      <<2>> \o PolyHalf,
      <<0>> \o PolyLineIn, <<0>> \o PolyLineTenth,
      <<5>> \o PolyFar, <<0>> \o PolyBow,
      <<3>> \o PolyTri,
      <<4>> \o PolyA,
      <<7>> \o PolyA,
      <<1, 0, 0, 12, 0, 12>> }

\* the image sizes; in the narrow one PolyB and PolyLineIn collapse to segments
ImageSizes == {<<16, 16>>, <<2, 16>>}

LabelFiles == UNION {[1..n -> LabelLines] : n \in 0..MaxLines}

-----------------------------------------------------------------------------
(* convert_page *)

\* converter.py:363-413
Categorize ==
    /\ pc = "categorize"
    /\ \E acc \in {CategorizeFrom(lines, img, 1,
                      [parents |-> parent_text_regions,
                       children |-> child_text_regions,
                       tlines |-> text_lines, tree |-> nodes])} :
           /\ parent_text_regions' = acc.parents
           /\ child_text_regions' = acc.children
           /\ text_lines' = acc.tlines
           /\ nodes' = acc.tree
    /\ pc' = "parents"
    /\ UNCHANGED <<lines, img, run, all_text_regions, orphan_child_regions,
                   orphan_line_counter, first_nodes, foldervars>>

\* converter.py:415-426
CreateParents ==
    /\ pc = "parents"
    /\ \E acc \in {CreateParentsFrom(1,
                      [parents |-> parent_text_regions,
                       all |-> all_text_regions, tree |-> nodes])} :
           /\ parent_text_regions' = acc.parents
           /\ all_text_regions' = acc.all
           /\ nodes' = acc.tree
    /\ pc' = "children"
    /\ UNCHANGED <<lines, img, run, child_text_regions, text_lines,
                   orphan_child_regions, orphan_line_counter, first_nodes,
                   foldervars>>

\* converter.py:428-463
AssignChildren ==
    /\ pc = "children"
    /\ \E acc \in {AssignChildrenFrom(parent_text_regions, 1,
                      [children |-> child_text_regions,
                       all |-> all_text_regions, tree |-> nodes,
                       orphans |-> <<>>])} :
           /\ child_text_regions' = acc.children
           /\ all_text_regions' = acc.all
           /\ nodes' = acc.tree
           /\ orphan_child_regions' = acc.orphans
    /\ pc' = "textlines"
    /\ UNCHANGED <<lines, img, run, parent_text_regions, text_lines,
                   orphan_line_counter, first_nodes, foldervars>>

\* converter.py:465-521
AssignTextLines ==
    /\ pc = "textlines"
    /\ \E acc \in {AssignLinesFrom(text_lines, all_text_regions, 1,
                      [tree |-> nodes, counter |-> 0])} :
           /\ nodes' = acc.tree
           /\ orphan_line_counter' = acc.counter
    /\ pc' = "done"
    /\ UNCHANGED <<lines, img, run, parent_text_regions, child_text_regions,
                   text_lines, all_text_regions, orphan_child_regions,
                   first_nodes, foldervars>>

\* converter.py:349, 355-360 as a value: the locals a call starts from
Fresh ==
    [parents |-> <<>>, children |-> <<>>, tlines |-> <<>>, all |-> <<>>,
     tree |-> <<>>]

\* the locals as they stand
Stale ==
    [parents |-> parent_text_regions, children |-> child_text_regions,
     tlines |-> text_lines, all |-> all_text_regions, tree |-> nodes]

\* converter.py:363-521 in one piece, from the locals `from`
RunPasses(ls, im, from) ==
    LET cat == CategorizeFrom(ls, im, 1,
                   [parents |-> from.parents, children |-> from.children,
                    tlines |-> from.tlines, tree |-> from.tree])
        par == CreateParentsFrom(1,
                   [parents |-> cat.parents, all |-> from.all,
                    tree |-> cat.tree])
        chi == AssignChildrenFrom(par.parents, 1,
                   [children |-> cat.children, all |-> par.all,
                    tree |-> par.tree, orphans |-> <<>>])
        lin == AssignLinesFrom(cat.tlines, chi.all, 1,
                   [tree |-> chi.tree, counter |-> 0])
    IN  [parents |-> par.parents, children |-> chi.children,
         tlines |-> cat.tlines, all |-> chi.all, tree |-> lin.tree,
         orphans |-> chi.orphans, counter |-> lin.counter]

\* the second call with the lists of the first call left as they are
SecondCallStale == RunPasses(lines, img, Stale)

\* what a second call of convert_page on the same label file and image
\* computes: its locals are made anew (converter.py:349, 355-360)
SecondCall == RunPasses(lines, img, Fresh)

\* converter.py:323-540, called a second time on the same input
CallAgain ==
    /\ pc = "done"
    /\ run = 1
    /\ first_nodes' = nodes
    /\ run' = 2
    /\ \E out \in {SecondCall} :
           /\ parent_text_regions' = out.parents
           /\ child_text_regions' = out.children
           /\ text_lines' = out.tlines
           /\ all_text_regions' = out.all
           /\ nodes' = out.tree
           /\ orphan_child_regions' = out.orphans
           /\ orphan_line_counter' = out.counter
    /\ pc' = "done"
    /\ UNCHANGED <<lines, img, foldervars>>

PageInit ==
    /\ lines \in LabelFiles
    /\ img \in ImageSizes
    /\ pc = "categorize"
    /\ run = 1
    /\ parent_text_regions = <<>>
    /\ child_text_regions = <<>>
    /\ text_lines = <<>>
    /\ all_text_regions = <<>>
    /\ nodes = <<>>
    /\ orphan_child_regions = <<>>
    /\ orphan_line_counter = 0
    /\ first_nodes = <<>>

PageIdle ==
    /\ lines = <<>>
    /\ img = <<16, 16>>
    /\ pc = "idle"
    /\ run = 1
    /\ parent_text_regions = <<>>
    /\ child_text_regions = <<>>
    /\ text_lines = <<>>
    /\ all_text_regions = <<>>
    /\ nodes = <<>>
    /\ orphan_child_regions = <<>>
    /\ orphan_line_counter = 0
    /\ first_nodes = <<>>

-----------------------------------------------------------------------------
(* convert_folder *)

\* A label file of the folder: whether an image of the same stem exists and
\* can be opened, and whether every token of the file is a number.
FileKinds ==
    [image : {"none", "ok", "unreadable"}, label : {"ok", "badtoken"}]

Folders == UNION {[1..n -> FileKinds] : n \in 0..MaxFiles}

\* converter.py:583-588: the first existing images_folder/stem+ext, if any
FindImage(file) == IF file.image = "none" THEN Missing ELSE file.image

\* convert_page raises: Image.open on a file that is no image
\* (converter.py:345), int() or float() on a token that is no number
\* (converter.py:82, 88)
ConvertPageRaises(file) == file.image = "unreadable" \/ file.label = "badtoken"

\* converter.py:567-578
ListFiles ==
    /\ fpc = "start"
    /\ fpc' = IF Len(txt_files) = 0 THEN "returned" ELSE "loop"
    /\ fidx' = 1
    /\ converted' = 0
    /\ failed' = 0
    /\ UNCHANGED <<txt_files, calls, pagevars>>

\* ProcessFile without the failed += 1 of a label that has no image
ProcessFileSkipUncounted ==
    /\ fpc = "loop"
    /\ fidx <= Len(txt_files)
    /\ LET file == txt_files[fidx]
       IN  IF FindImage(file) = Missing
           THEN UNCHANGED <<failed, converted, calls>>
           ELSE /\ calls' = [calls EXCEPT ![fidx] = @ + 1]
                /\ IF ConvertPageRaises(file)
                   THEN failed' = failed + 1 /\ UNCHANGED converted
                   ELSE converted' = converted + 1 /\ UNCHANGED failed
    /\ fidx' = fidx + 1
    /\ UNCHANGED <<txt_files, fpc, pagevars>>

\* converter.py:580-602: one iteration of the loop over txt_files
ProcessFile ==
    /\ fpc = "loop"
    /\ fidx <= Len(txt_files)
    /\ LET file == txt_files[fidx]
       IN  IF FindImage(file) = Missing
           THEN /\ failed' = failed + 1
                /\ UNCHANGED <<converted, calls>>
           ELSE /\ calls' = [calls EXCEPT ![fidx] = @ + 1]
                /\ IF ConvertPageRaises(file)
                   THEN failed' = failed + 1 /\ UNCHANGED converted
                   ELSE converted' = converted + 1 /\ UNCHANGED failed
    /\ fidx' = fidx + 1
    /\ UNCHANGED <<txt_files, fpc, pagevars>>

\* converter.py:604
FinishFolder ==
    /\ fpc = "loop"
    /\ fidx > Len(txt_files)
    /\ fpc' = "done"
    /\ UNCHANGED <<txt_files, fidx, converted, failed, calls, pagevars>>

FolderInit ==
    /\ txt_files \in Folders
    /\ fpc = "start"
    /\ fidx = 0
    /\ converted = 0
    /\ failed = 0
    /\ calls = [i \in 1..Len(txt_files) |-> 0]

FolderIdle ==
    /\ txt_files = <<>>
    /\ fpc = "idle"
    /\ fidx = 0
    /\ converted = 0
    /\ failed = 0
    /\ calls = <<>>

-----------------------------------------------------------------------------
(* The specification: one call of convert_page followed by a second on the *)
(* same input, or one call of convert_folder                               *)

Init == (PageInit /\ FolderIdle) \/ (PageIdle /\ FolderInit)

Next ==
    \/ Categorize
    \/ CreateParents
    \/ AssignChildren
    \/ AssignTextLines
    \/ CallAgain
    \/ ListFiles
    \/ ProcessFile
    \/ FinishFolder

Spec == Init /\ [][Next]_vars

-----------------------------------------------------------------------------
(* What the claims speak of: the records of the label file and their nodes *)

Done == pc = "done"

LineIdxs == 1..Len(lines)

\* the line has a class id and at least 3 points
Parses(i) == Len(lines[i]) >= 7

ClassOf(i) == lines[i][1]

InTable(i) == Parses(i) /\ ClassOf(i) \in DOMAIN Mapping

\* the pixel polygon of a label line in an image of size im: its j-th point is
\* made of tokens 2j and 2j+1
PixelPolygon ==
    [line \in LabelLines |-> [im \in ImageSizes |->
        [j \in 1..((Len(line) - 1) \div 2) |->
            <<(line[2 * j] * im[1]) \div Den,
              (line[2 * j + 1] * im[2]) \div Den>>]]]

\* whether that polygon is valid
ValidPolygon ==
    [line \in LabelLines |-> [im \in ImageSizes |->
        IsValid(PixelPolygon[line][im])]]

\* twice the area two valid polygons share
SharedArea2 ==
    [p \in LabelLines |-> [q \in LabelLines |-> [im \in ImageSizes |->
        IF ValidPolygon[p][im] /\ ValidPolygon[q][im]
        THEN IntersectionArea2(PixelPolygon[p][im], PixelPolygon[q][im])
        ELSE 0]]]

\* the pixel polygon of line i
PointsOf(i) == PixelPolygon[lines[i]][img]

ElementOf(i) == Mapping[ClassOf(i)].element

IsLeaf(i) == InTable(i) /\ ElementOf(i) = "TextLine"
IsTextRegion(i) == InTable(i) /\ ElementOf(i) = "TextRegion"
IsNestable(i) == IsTextRegion(i) /\ Mapping[ClassOf(i)].parent = "TextRegion"
IsTop(i) == IsTextRegion(i) /\ ~IsNestable(i)
IsOpaque(i) == InTable(i) /\ ElementOf(i) \in OtherRegions

NodeIdxs == 1..Len(nodes)

\* the ids a node made for the line of index idx may bear
IdsOfIndex == [idx \in 0..MaxLines |-> {RegionId(idx), LineId(idx)}]

\* the nodes of the tree made for line i
NodesOf(i) == {k \in NodeIdxs : nodes[k].id \in IdsOfIndex[i - 1]}

\* a TextRegion manufactured for an orphan line
IsManufactured(k) ==
    /\ nodes[k].tag = "TextRegion"
    /\ Len(nodes[k].id) > 1
    /\ nodes[k].id[2] = "_"

ChildrenOf(k) == {c \in NodeIdxs : nodes[c].parent = k}

\* line j is a text region that line i, a leaf, overlaps by more than a tenth
\* of its own area
QualifiesFor(i, j) ==
    /\ IsLeaf(i)
    /\ IsTextRegion(j)
    /\ ValidPolygon[lines[i]][img]
    /\ ValidPolygon[lines[j]][img]
    /\ 10 * SharedArea2[lines[i]][lines[j]][img] > Area2(PointsOf(i))

\* the valid polygon of line i lies inside the valid polygon of line j
Inside(i, j) ==
    /\ ValidPolygon[lines[i]][img]
    /\ ValidPolygon[lines[j]][img]
    /\ SharedArea2[lines[i]][lines[j]][img] = Area2(PointsOf(i))

-----------------------------------------------------------------------------
(* C1 *)

\* C1 (no data loss): when convert_page completes, the tree holds, besides the
\* manufactured orphan containers, exactly one node per label line that parses
\* to at least 3 points and whose class id is in the mapping table.
C1_NoDataLoss ==
    Done =>
        Cardinality({k \in NodeIdxs : ~IsManufactured(k)})
            = Cardinality({i \in LineIdxs : InTable(i)})

-----------------------------------------------------------------------------
(* C2 *)

\* C2 (exactly one owner): when convert_page completes, every TextLine record
\* has exactly one node, a TextLine under a TextRegion, and every nestable
\* TextRegion record has exactly one node, a TextRegion under Page or under a
\* top-level TextRegion that was not manufactured.
C2_OwnedByExactlyOne ==
    Done =>
        \A i \in LineIdxs :
            /\ IsLeaf(i) =>
                  /\ Cardinality(NodesOf(i)) = 1
                  /\ \A k \in NodesOf(i) :
                        /\ nodes[k].tag = "TextLine"
                        /\ nodes[k].parent # Page
                        /\ nodes[nodes[k].parent].tag = "TextRegion"
            /\ IsNestable(i) =>
                  /\ Cardinality(NodesOf(i)) = 1
                  /\ \A k \in NodesOf(i) :
                        /\ nodes[k].tag = "TextRegion"
                        /\ \/ nodes[k].parent = Page
                           \/ /\ nodes[nodes[k].parent].tag = "TextRegion"
                              /\ nodes[nodes[k].parent].parent = Page
                              /\ ~IsManufactured(nodes[k].parent)

\* a completed conversion with a leaf that several regions qualify for, a leaf
\* that none qualifies for, and a nestable region nested in a parent
C2_Witness ==
    /\ Done
    /\ \E i \in LineIdxs :
          Cardinality({j \in LineIdxs : QualifiesFor(i, j)}) >= 2
    /\ \E i \in LineIdxs :
          IsNestable(i) /\ \E k \in NodesOf(i) : nodes[k].parent # Page

-----------------------------------------------------------------------------
(* C3 *)

\* top-level regions a and b with b properly inside a, and leaf l inside b
NestedScenario(a, b, l) ==
    /\ IsTop(a) /\ IsTop(b) /\ IsLeaf(l)
    /\ Inside(b, a)
    /\ Area2(PointsOf(b)) < Area2(PointsOf(a))
    /\ Inside(l, b)

\* C3 (most specific container): with top-level regions A and B, B properly
\* inside A, and a leaf of valid polygon inside B, in either input order, the
\* leaf is never put under A; it is put under a text region no larger than B,
\* and under B itself when no other region that qualifies is as small as B.
C3_MostSpecificContainer ==
    Done =>
        \A a, b, l \in LineIdxs :
            NestedScenario(a, b, l) =>
                \A k \in NodesOf(l) :
                    /\ nodes[k].parent \notin NodesOf(a)
                    /\ \E r \in LineIdxs :
                          /\ IsTextRegion(r)
                          /\ nodes[k].parent \in NodesOf(r)
                          /\ Area2(PointsOf(r)) <= Area2(PointsOf(b))
                    /\ (\A r \in LineIdxs \ {b} :
                            QualifiesFor(l, r)
                                => Area2(PointsOf(r)) > Area2(PointsOf(b)))
                          => nodes[k].parent \in NodesOf(b)

\* the scenario with A before B in the input: the leaf is under B
C3_Witness ==
    /\ Done
    /\ \E a, b, l \in LineIdxs :
          /\ a < b
          /\ NestedScenario(a, b, l)
          /\ \E k \in NodesOf(l) : nodes[k].parent \in NodesOf(b)

-----------------------------------------------------------------------------
(* C4 *)

\* some top-level region contains more than half of the nestable region n
ExceedsHalf(n) ==
    \E t \in LineIdxs :
        /\ IsTop(t)
        /\ LET sc == CalculateContainmentScore(PointsOf(n), PointsOf(t))
           IN  2 * sc[1] > sc[2]

-----------------------------------------------------------------------------
(* C5 *)

\* leaf l has no qualifying region
IsOrphanLeaf(l) == IsLeaf(l) /\ ~\E r \in LineIdxs : QualifiesFor(l, r)

\* the type of the container manufactured for leaf l
OrphanType(l) ==
    IF Mapping[ClassOf(l)].parent_type = Missing
    THEN "paragraph"
    ELSE Mapping[ClassOf(l)].parent_type

\* C5 (orphan fallback): a leaf that no region qualifies for lies in a
\* manufactured TextRegion directly under Page, of the leaf's polygon and of
\* its parent_type ('paragraph' when unset), whose only child is that leaf;
\* every manufactured container holds exactly one line, and there are as many
\* of them as orphan leaves.
C5_OrphanFallback ==
    Done =>
        \E orphans \in {{l \in LineIdxs : IsOrphanLeaf(l)}} :
            /\ \A l \in orphans :
                  \A k \in NodesOf(l) :
                      /\ nodes[k].parent # Page
                      /\ IsManufactured(nodes[k].parent)
                      /\ nodes[nodes[k].parent].parent = Page
                      /\ nodes[nodes[k].parent].type = OrphanType(l)
                      /\ nodes[nodes[k].parent].points = nodes[k].points
                      /\ ChildrenOf(nodes[k].parent) = {k}
            /\ \A p \in NodeIdxs :
                  IsManufactured(p) => Cardinality(ChildrenOf(p)) = 1
            /\ Cardinality({p \in NodeIdxs : IsManufactured(p)})
                  = Cardinality(orphans)
            /\ orphan_line_counter = Cardinality(orphans)

\* two orphan leaves, one of the default and one of a configured parent_type,
\* beside a text region made from the input
C5_Witness ==
    /\ Done
    /\ \E l \in LineIdxs : IsOrphanLeaf(l) /\ OrphanType(l) = "paragraph"
    /\ \E l \in LineIdxs : IsOrphanLeaf(l) /\ OrphanType(l) = "caption"
    /\ \E r \in LineIdxs : IsTextRegion(r) /\ IsValid(PointsOf(r))

-----------------------------------------------------------------------------
(* C6 *)

FileIdxs == 1..Len(txt_files)

\* C6 (batch isolation): convert_folder ends in no state but its return; each
\* file gone through is counted once, as converted or as failed; at the end
\* converted + failed is the number of label files, converted counts the
\* files whose conversion did not raise, and convert_page has run once on
\* each file that has an image and never on one that has none.
C6_BatchIsolation ==
    /\ fpc \in {"idle", "start", "returned", "loop", "done"}
    /\ fpc = "loop" => converted + failed = fidx - 1
    /\ fpc = "returned" => Len(txt_files) = 0 /\ converted + failed = 0
    /\ fpc = "done" =>
          /\ converted + failed = Len(txt_files)
          /\ converted = Cardinality({i \in FileIdxs :
                 txt_files[i].image = "ok" /\ txt_files[i].label = "ok"})
          /\ \A i \in FileIdxs :
                calls[i] = IF txt_files[i].image = "none" THEN 0 ELSE 1

\* a finished batch with a label without image, a conversion that raised and
\* a conversion that succeeded after them
C6_Witness ==
    /\ fpc = "done"
    /\ \E i, j, k \in FileIdxs :
          /\ i < k /\ j < k
          /\ txt_files[i].image = "none"
          /\ txt_files[j].image # "none" /\ ConvertPageRaises(txt_files[j])
          /\ txt_files[k].image = "ok" /\ txt_files[k].label = "ok"

-----------------------------------------------------------------------------
(* C7 *)

\* a tree without its ids
Structure(tree) ==
    [k \in 1..Len(tree) |->
        [tag |-> tree[k].tag, type |-> tree[k].type,
         points |-> tree[k].points, parent |-> tree[k].parent]]

-----------------------------------------------------------------------------
(* C8 *)

\* C8 (identifier uniqueness): the ids of the nodes of the tree are pairwise
\* distinct.
C8_UniqueIds ==
    \A j, k \in NodeIdxs : j # k => nodes[j].id # nodes[k].id

\* a tree with two manufactured containers beside a node made from the first
\* label line
C8_Witness ==
    /\ Done
    /\ Cardinality({p \in NodeIdxs : IsManufactured(p)}) >= 2
    /\ \E k \in NodeIdxs : nodes[k].id = RegionId(0)

-----------------------------------------------------------------------------
(* C9 *)

ScoreOf(n, t) == CalculateContainmentScore(PointsOf(n), PointsOf(t))

\* C9 (parent selection): the parent of a nested region is the node of a
\* top-level TextRegion record, itself directly under Page; no other
\* top-level record has a greater containment ratio, and none before it in
\* the input has an equal one.
C9_ParentSelection ==
    Done =>
        \A n \in LineIdxs :
            IsNestable(n) =>
                \A k \in NodesOf(n) :
                    nodes[k].parent # Page =>
                        \E t \in LineIdxs :
                            /\ IsTop(t)
                            /\ nodes[k].parent \in NodesOf(t)
                            /\ nodes[nodes[k].parent].parent = Page
                            /\ \A u \in LineIdxs :
                                  IsTop(u) =>
                                      /\ ~FracGT(ScoreOf(n, u), ScoreOf(n, t))
                                      /\ u < t =>
                                            FracGT(ScoreOf(n, t), ScoreOf(n, u))

\* a nestable region nested in the first of two top-level regions of the same,
\* greatest ratio
C9_Witness ==
    /\ Done
    /\ \E n, t, u \in LineIdxs :
          /\ IsNestable(n) /\ IsTop(t) /\ IsTop(u)
          /\ t < u
          /\ ScoreOf(n, t) = ScoreOf(n, u)
          /\ \E k \in NodesOf(n) : nodes[k].parent \in NodesOf(t)

-----------------------------------------------------------------------------
(* C10 *)

-----------------------------------------------------------------------------
(* C11 *)

\* text region r comes before text region u in the enumeration of Pass 3: the
\* top-level regions in input order, then the nestable ones in input order
EnumBefore(r, u) ==
    \/ IsTop(r) /\ IsNestable(u)
    \/ /\ IsTop(r) <=> IsTop(u)
       /\ r < u

\* C11 (Pass 3 selection): a leaf that some region qualifies for is put under
\* a qualifying region; every other qualifying region has a greater polygon
\* area, or the same area and a later place in the enumeration of the
\* top-level regions in input order followed by the nestable regions in input
\* order.
C11_SmallestAreaFirstWins ==
    Done =>
        \A l \in LineIdxs :
            IsLeaf(l) =>
                \E qualifying \in {{r \in LineIdxs : QualifiesFor(l, r)}} :
                    qualifying # {} =>
                        \E area \in {[r \in qualifying |-> Area2(PointsOf(r))]} :
                            \A k \in NodesOf(l) :
                                \E r \in qualifying :
                                    /\ nodes[k].parent \in NodesOf(r)
                                    /\ \A u \in qualifying \ {r} :
                                          \/ area[r] < area[u]
                                          \/ /\ area[r] = area[u]
                                             /\ EnumBefore(r, u)

\* a leaf with a nestable and a top-level qualifying region of the same area,
\* the nestable one first in the input: the leaf is under the top-level one
C11_Witness ==
    /\ Done
    /\ \E l, n, t \in LineIdxs :
          /\ n < t
          /\ IsNestable(n) /\ IsTop(t)
          /\ QualifiesFor(l, n) /\ QualifiesFor(l, t)
          /\ Area2(PointsOf(n)) = Area2(PointsOf(t))
          /\ \E k \in NodesOf(l) : nodes[k].parent \in NodesOf(t)

-----------------------------------------------------------------------------
(* C12 *)

\* the label line node k was made for; a manufactured container has none
RecordOf(k) ==
    IF IsManufactured(k) THEN 0
    ELSE CHOOSE i \in LineIdxs : nodes[k].id \in IdsOfIndex[i - 1]

\* the place of node k among its siblings, by what it is: an opaque region, a
\* top-level region, a nestable region, a manufactured container, a line
KindRank(k) ==
    IF IsManufactured(k) THEN 4
    ELSE IF nodes[k].tag = "TextLine" THEN 5
    ELSE IF nodes[k].tag # "TextRegion" THEN 1
    ELSE IF IsTop(RecordOf(k)) THEN 2
    ELSE 3

\* ET.SubElement appends: the children of an element are emitted in the order
\* of their creation, which is the order of their indices in nodes
EmittedBefore(j, k) == nodes[j].parent = nodes[k].parent /\ j < k

\* C12 (emission order): of two children of Page, or of one region, the one
\* emitted first is of the same or an earlier kind in the order opaque
\* region, top-level region, nestable region, manufactured container, line;
\* two of the same kind made from the input are emitted in input order.  So
\* under Page the opaque regions come first, then the top-level regions, then
\* the orphaned nestable regions, then the manufactured containers, and inside
\* a region its nested regions come before its lines.
C12_EmissionOrder ==
    Done =>
        \E rank \in {[k \in NodeIdxs |-> KindRank(k)]} :
        \E record \in {[k \in NodeIdxs |-> RecordOf(k)]} :
            \A j, k \in NodeIdxs :
                EmittedBefore(j, k) =>
                    /\ rank[j] <= rank[k]
                    /\ (rank[j] = rank[k] /\ rank[j] # 4)
                          => record[j] < record[k]

\* a region that holds a nested region and a line, the line before the nested
\* region in the input
C12_Witness ==
    /\ Done
    /\ \E c, l \in NodeIdxs :
          /\ nodes[c].parent # Page
          /\ nodes[c].parent = nodes[l].parent
          /\ nodes[c].tag = "TextRegion"
          /\ nodes[l].tag = "TextLine"
          /\ RecordOf(l) < RecordOf(c)

-----------------------------------------------------------------------------
(* C13 *)

\* fewer than 7 tokens
Malformed(line) == Len(line) < 7

\* a class id that is no key of the mapping table
Unmapped(line) == ~Malformed(line) /\ line[1] \notin DOMAIN Mapping

Carried(line) == ~Malformed(line) /\ ~Unmapped(line)

IsSkipped(i) == ~Carried(lines[i])

\* the label file with every skipped line emptied
Blanked(ls) == [i \in 1..Len(ls) |-> IF Carried(ls[i]) THEN ls[i] ELSE <<>>]

\* the label file without its skipped lines
WithoutSkipped(ls) == SelectSeq(ls, Carried)

\* the ids of the entries of a list of convert_page
IdsIn(list) == {list[n].id : n \in 1..Len(list)}

\* C13 (recoverable skips): a conversion of a file with malformed lines or
\* lines of an unmapped class id completes like any other; when it has, a
\* skipped line has no node and no entry in the lists of top-level regions,
\* nestable regions, candidate regions and lines; the tree is the tree of the
\* same file with the skipped lines emptied, and but for the ids, which count
\* the lines of the file, the tree of the file without the skipped lines.
C13_RecoverableSkips ==
    (Done /\ \E i \in LineIdxs : IsSkipped(i)) =>
        /\ \A i \in LineIdxs :
              IsSkipped(i) =>
                  /\ NodesOf(i) = {}
                  /\ IdsOfIndex[i - 1]
                        \cap (IdsIn(parent_text_regions)
                              \cup IdsIn(child_text_regions)
                              \cup IdsIn(all_text_regions)
                              \cup IdsIn(text_lines)) = {}
        /\ nodes = RunPasses(Blanked(lines), img, Fresh).tree
        /\ Structure(nodes)
              = Structure(RunPasses(WithoutSkipped(lines), img, Fresh).tree)

\* a completed conversion of a file with a malformed line and a line of an
\* unmapped class id whose polygon holds a leaf: the leaf is an orphan
C13_Witness ==
    /\ Done
    /\ \E i, j, l \in LineIdxs :
          /\ Malformed(lines[i]) /\ Len(lines[i]) > 0
          /\ Unmapped(lines[j])
          /\ IsLeaf(l)
          /\ Inside(l, j)
          /\ \E k \in NodesOf(l) : IsManufactured(nodes[k].parent)

=============================================================================
